---- MODULE Spec2Model ----
(***************************************************************************)
(* Verifiable data structures service: the batch mutator (api/batch_       *)
(* mutator.go), its overlay key-value wrapper mapNoLockDB, the instant     *)
(* mutator (api/service.go) and the LogTreeHash read path                  *)
(* (service_log_tree_hash.go).                                             *)
(*                                                                         *)
(* Three specifications share the variables:                               *)
(*   Spec        the batch mutator: callers of QueueMutation, the bounded  *)
(*               channel, the single consumer goroutine and the store;     *)
(*   SpecKV      the overlay mapNoLockDB alone, driven by arbitrary        *)
(*               Get/Set calls over an arbitrary parent;                   *)
(*   SpecService the instant mutator writing a log and LogTreeHash         *)
(*               reading it.                                               *)
(***************************************************************************)
EXTENDS Integers, Sequences, FiniteSets, TLC

\* ------------------------------------------------------------------ bounds

\* Number of QueueMutation calls made in one behaviour.
MaxMuts == 2
\* Largest configured BatchMutatorConfig.BatchSize (0 is accepted too).
MaxBatchSize == 3
\* Largest configured BatchMutatorConfig.BufferSize (0: unbuffered channel).
MaxBufferSize == 1
\* Largest configured BatchMutatorConfig.Timeout, in clock ticks.
MaxTimeout == 1

\* The namespaces ([]byte identifiers) the callers use.
Namespaces == {1, 2}
\* The log entries a LogAdd mutation may carry.
Entries == {"a", "b"}
\* pb.Mutation values: a log append, the creation of the log, or a mutation
\* the applier rejects.
LogCreateMutation == [kind |-> "LogCreate", entry |-> "a"]
Mutations == [kind : {"LogAdd"}, entry : Entries]
             \cup {LogCreateMutation, [kind |-> "Bad", entry |-> "a"]}

\* --------------------------------------------------------------- variables

VARIABLES
    Conf,       \* bm.Conf: [BatchSize, BufferSize, Timeout]
    Ch,         \* bm.Ch: the buffered items (ids of chObjects), oldest first
    item,       \* id -> chObject [ns, mut] of every QueueMutation call made
    sending,    \* ids whose QueueMutation is blocked in `bm.Ch <- ...`
    result,     \* id -> what QueueMutation returned to its caller
    store,      \* the KV substrate: ns -> ((bucket, key) -> value)
    pc,         \* the consumer goroutine's position
    seed,       \* consume's seed (0: nil)
    obj,        \* handleBatch's obj
    cnt,        \* handleBatch's cnt
    curSize,    \* handleBatch's curSize
    startSize,  \* consume's startSize
    nextSize,   \* consume's nextSize
    wrapper,    \* consume's wrapper: [M, L, Parent]
    batchNs,    \* consume's ns
    waited,     \* ticks spent in the current select
    held,       \* ticks spent waiting on the channel since this batch began
    entered,    \* history: ids in the order they entered the channel
    deq,        \* history: ids in the order the consumer received them
    batch,      \* history: ids ApplyMutation succeeded on in this batch
    committed,  \* history: ns -> ids of the batches that finished, in order
    failed,     \* history: ids of the batch that was aborted
    err,        \* consume's err, as handed to log.Fatal ("nil": none)
    updates,    \* history: number of ExecuteUpdate scopes opened
    kv,         \* SpecKV: the overlay under test, [M, L, Parent]
    kvRes,      \* SpecKV: the last Get/Set call and what it returned
    resp,       \* SpecService: the last step of a request and its response
    scope,      \* SpecService: the read-only scope LogTreeHash has open
    proof       \* SpecProof: the response headers of a Get and what it made of them

vars == <<Conf, Ch, item, sending, result, store, pc, seed, obj, cnt, curSize,
          startSize, nextSize, wrapper, batchNs, waited, held, entered, deq,
          batch, committed, failed, updates, err, kv, kvRes, resp, scope, proof>>

mutVars == <<Conf, Ch, item, sending, result, store, pc, seed, obj, cnt, curSize,
             startSize, nextSize, wrapper, batchNs, waited, held, entered, deq,
             batch, committed, failed, updates, err>>

\* ------------------------------------------------------------ byte strings

\* One character of hex.EncodeToString, as its ASCII code.
HexDigit(n) == IF n < 10 THEN 48 + n ELSE 87 + n

\* hex.EncodeToString: two lower-case hex characters per byte.
RECURSIVE HexEncode(_)
HexEncode(bs) ==
    IF bs = <<>> THEN <<>>
    ELSE <<HexDigit(Head(bs) \div 16), HexDigit(Head(bs) % 16)>> \o HexEncode(Tail(bs))

\* The ASCII code of "|".
Bar == 124

MapKeyNoSeparator(bucket, key) == HexEncode(bucket) \o HexEncode(key)

\* k := hex.EncodeToString(bucket) + "|" + hex.EncodeToString(key)
MapKey(bucket, key) == HexEncode(bucket) \o <<Bar>> \o HexEncode(key)

\* A proto.Message is modelled as the tuple of its (small integer) fields.
\* proto.Marshal: every field as its tag byte (field number * 8) and its value.
RECURSIVE MarshalFrom(_, _)
MarshalFrom(v, i) ==
    IF i > Len(v) THEN <<>> ELSE <<8 * i, v[i]>> \o MarshalFrom(v, i + 1)

Marshal(v) == MarshalFrom(v, 1)

\* proto.Unmarshal: the field values back out of the tagged bytes.
Unmarshal(b) == [i \in 1..(Len(b) \div 2) |-> b[2 * i]]

\* ----------------------------------------------------------- KV substrate

ErrNoSuchKey == "ErrNoSuchKey"

EmptyKV == [x \in {} |-> 0]

\* KeyReader.Get on a substrate scope: the value, or ErrNoSuchKey.
KVGet(db, bucket, key) ==
    IF <<bucket, key>> \in DOMAIN db
    THEN [err |-> "nil", value |-> db[<<bucket, key>>]]
    ELSE [err |-> ErrNoSuchKey, value |-> 0]

\* KeyWriter.Set on a substrate scope.
KVSet(db, bucket, key, value) ==
    [x \in DOMAIN db \cup {<<bucket, key>>} |->
        IF x = <<bucket, key>> THEN value ELSE db[x]]

\* ------------------------------------------------------------ mapNoLockDB

\* mapNoLockDB.Get: the overlay first, then the parent.
mapNoLockDBGet(m, bucket, key) ==
    LET k == MapKey(bucket, key)
    IN  IF k \in DOMAIN m.M
        THEN [err |-> "nil", value |-> Unmarshal(m.M[k])]
        ELSE KVGet(m.Parent, bucket, key)

\* mapNoLockDB.Set: into the overlay map, and appended to the replay list.
mapNoLockDBSet(m, bucket, key, value) ==
    LET k == MapKey(bucket, key)
    IN  [m EXCEPT !.M = [x \in DOMAIN m.M \cup {k} |->
                            IF x = k THEN Marshal(value) ELSE m.M[x]],
                  !.L = Append(m.L, [Bucket |-> bucket, Key |-> key, Value |-> value])]

\* wrapper := &mapNoLockDB{M: make(map[string][]byte)}, then wrapper.Parent = kr
NewWrapper(kr) == [M |-> EmptyKV, L |-> <<>>, Parent |-> kr]

\* ------------------------------------------- object size, mutation applier

\* Bucket names, as byte strings.
EntryBucket == <<1>>
IndexLeafBucket == <<2>>
MetaBucket == <<3>>
\* Keys of the meta bucket.
SizeKey == <<1>>
HeadKey == <<2>>
CreatedKey == <<3>>

\* The leaf hash of an entry, as a one-byte string (distinct per entry).
LeafHash(e) == IF e = "a" THEN <<161>> ELSE <<162>>

\* The entry as stored, and the root hash as a number: the root over no
\* leaves is 0 (the all-zero hash), and appending a leaf to a tree of root r
\* gives a root that determines both r and the leaf.
EntryCode(e) == IF e = "a" THEN 1 ELSE 2
RootAfter(r, e) == 3 * r + EntryCode(e)

\* readObjectSize: meta/size, 0 for an object with no size yet.
readObjectSize(kr) ==
    LET r == KVGet(kr, MetaBucket, SizeKey)
    IN  IF r.err = "nil" THEN r.value[1] ELSE 0

\* writeObjectSize: meta/size := n.
writeObjectSize(kw, n) == KVSet(kw, MetaBucket, SizeKey, <<n>>)

\* lookupLogTreeHead as the applier needs it, through a KeyWriter that is
\* the overlay: meta/head, or (0, all-zero) for a log with no head yet.
HeadOf(r) == IF r.err = "nil" THEN r.value ELSE <<0, 0>>

\* ApplyMutation(kw, sizeBefore, mut) of a LogAdd: an entry whose leaf hash
\* is already indexed changes nothing; otherwise the entry, its index and
\* the new head are written and the size grows by one.
applyLogAddEntry(kw, sizeBefore, e) ==
    LET found == mapNoLockDBGet(kw, IndexLeafBucket, LeafHash(e))
        head  == HeadOf(mapNoLockDBGet(kw, MetaBucket, HeadKey))
        kw1   == mapNoLockDBSet(kw, EntryBucket, <<sizeBefore>>, <<EntryCode(e)>>)
        kw2   == mapNoLockDBSet(kw1, IndexLeafBucket, LeafHash(e), <<sizeBefore>>)
        kw3   == mapNoLockDBSet(kw2, MetaBucket, HeadKey,
                                <<sizeBefore + 1, RootAfter(head[2], e)>>)
    IN  IF found.err = "nil"
        THEN [kw |-> kw, size |-> sizeBefore, err |-> "nil"]
        ELSE [kw |-> kw3, size |-> sizeBefore + 1, err |-> "nil"]

\* ApplyMutation(kw, sizeBefore, mut) of a LogCreate: the object is recorded
\* as created, its size unchanged; creating an existing object fails.
applyLogCreate(kw, sizeBefore) ==
    IF mapNoLockDBGet(kw, MetaBucket, CreatedKey).err = "nil"
    THEN [kw |-> kw, size |-> 0, err |-> "ErrAlreadyExists"]
    ELSE [kw |-> mapNoLockDBSet(kw, MetaBucket, CreatedKey, <<1>>),
          size |-> sizeBefore, err |-> "nil"]

\* ApplyMutation(kw, sizeBefore, mut) -> (int64, error)
ApplyMutation(kw, sizeBefore, mut) ==
    IF mut.kind = "LogAdd"
    THEN applyLogAddEntry(kw, sizeBefore, mut.entry)
    ELSE IF mut.kind = "LogCreate"
    THEN applyLogCreate(kw, sizeBefore)
    ELSE [kw |-> kw, size |-> 0, err |-> "ErrNotImplemented"]

\* ExecuteUpdate's body in consume: every recorded op in order, then the size.
RECURSIVE ReplayFrom(_, _, _)
ReplayFrom(kw, L, i) ==
    IF i > Len(L) THEN kw
    ELSE ReplayFrom(KVSet(kw, L[i].Bucket, L[i].Key, L[i].Value), L, i + 1)

ReplayReversed(kw, L) ==
    ReplayFrom(kw, [i \in 1..Len(L) |-> L[Len(L) + 1 - i]], 1)

Replay(kw, L) == ReplayFrom(kw, L, 1)

\* ------------------------------------------------------------ the channel

Ids == 1..MaxMuts

\* The configurations CreateBatchMutator accepts.
Configs == [BatchSize : 0..MaxBatchSize, BufferSize : 0..MaxBufferSize,
            Timeout : 0..MaxTimeout]

IdleOverlay == NewWrapper(EmptyKV)

\* No Get of the map client has been made.
NoProof == [called |-> FALSE, headers |-> <<>>]

\* No read-only scope of LogTreeHash is open.
NoScope == [open |-> FALSE]

\* The state CreateBatchMutator leaves, but for the configuration.
MutatorCreated ==
    /\ Ch = <<>>
    /\ item = <<>>
    /\ sending = {}
    /\ result = <<>>
    /\ store = [n \in Namespaces |-> EmptyKV]
    /\ pc = "idle"
    /\ seed = 0
    /\ obj = 0
    /\ cnt = 0
    /\ curSize = 0
    /\ startSize = 0
    /\ nextSize = 0
    /\ wrapper = IdleOverlay
    /\ batchNs = 0
    /\ waited = 0
    /\ held = 0
    /\ entered = <<>>
    /\ deq = <<>>
    /\ batch = <<>>
    /\ committed = [n \in Namespaces |-> <<>>]
    /\ failed = <<>>
    /\ updates = 0
    /\ err = "nil"

Init ==
    /\ Conf \in Configs
    /\ MutatorCreated
    /\ kv = IdleOverlay
    /\ kvRes = [op |-> "none"]
    /\ resp = [op |-> "none"]
    /\ scope = NoScope
    /\ proof = NoProof

\* The process is running: log.Fatal has not ended it.
Running == pc # "fatal"

\* Whether `bm.Ch <- x` can proceed into the buffer.
HasRoomAlways(ch) == TRUE

HasRoom(ch) == Len(ch) < Conf.BufferSize

\* QueueMutation(ns, mut): `bm.Ch <- &chObject{ns: ns, mut: mut}; return nil`.
\* With room in the buffer the item enters it and the call returns nil; with
\* none the caller blocks in the send.
QueueMutation(ns, mut) ==
    /\ Running
    /\ Len(item) < MaxMuts
    /\ item' = Append(item, [ns |-> ns, mut |-> mut])
    /\ IF HasRoom(Ch)
       THEN /\ Ch' = Append(Ch, Len(item) + 1)
            /\ entered' = Append(entered, Len(item) + 1)
            /\ result' = Append(result, "nil")
            /\ UNCHANGED sending
       ELSE /\ sending' = sending \cup {Len(item) + 1}
            /\ result' = Append(result, "blocked")
            /\ UNCHANGED <<Ch, entered>>
    /\ UNCHANGED <<Conf, store, pc, seed, obj, cnt, curSize, startSize, nextSize,
                   wrapper, batchNs, waited, held, deq, batch, committed, failed,
                   updates, err, kv, kvRes, resp, scope, proof>>

\* A caller blocked in the send proceeds once the buffer has room.
QueueMutationUnblock(id) ==
    /\ Running
    /\ id \in sending
    /\ HasRoom(Ch)
    /\ Ch' = Append(Ch, id)
    /\ entered' = Append(entered, id)
    /\ sending' = sending \ {id}
    /\ result' = [result EXCEPT ![id] = "nil"]
    /\ UNCHANGED <<Conf, item, store, pc, seed, obj, cnt, curSize, startSize,
                   nextSize, wrapper, batchNs, waited, held, deq, batch, committed,
                   failed, updates, err, kv, kvRes, resp, scope, proof>>

\* What `<-bm.Ch` may yield: the oldest buffered item, or, on an unbuffered
\* channel, the item of any caller blocked in the send.
Receivable ==
    IF Ch # <<>> THEN {Head(Ch)}
    ELSE IF Conf.BufferSize = 0 THEN sending ELSE {}

\* The consumer receives id from the channel.
Receive(id) ==
    /\ id \in Receivable
    /\ deq' = Append(deq, id)
    /\ IF Ch # <<>>
       THEN /\ Ch' = Tail(Ch)
            /\ UNCHANGED <<sending, result, entered>>
       ELSE /\ sending' = sending \ {id}
            /\ result' = [result EXCEPT ![id] = "nil"]
            /\ entered' = Append(entered, id)
            /\ UNCHANGED Ch

\* ----------------------------------------------------------- the consumer

\* consume, lines 139-144: with no seed carried over, await one item.
consumeAwaitSeed ==
    /\ pc = "idle"
    /\ \E id \in Receivable :
          /\ Receive(id)
          /\ seed' = id
    /\ pc' = "start"
    /\ UNCHANGED <<Conf, item, store, obj, cnt, curSize, startSize, nextSize,
                   wrapper, batchNs, waited, held, batch, committed, failed,
                   updates, err, kv, kvRes, resp, scope, proof>>

\* consume, lines 146-160: a fresh wrapper, ns := seed.ns, the read-only
\* scope is opened, the size is read, and handleBatch starts (lines 106-110).
consumeOpenBatch ==
    /\ pc = "start"
    /\ batchNs' = item[seed].ns
    /\ wrapper' = NewWrapper(store[item[seed].ns])
    /\ startSize' = readObjectSize(store[item[seed].ns])
    /\ curSize' = readObjectSize(store[item[seed].ns])
    /\ nextSize' = 0
    /\ obj' = seed
    /\ cnt' = Conf.BatchSize
    /\ batch' = <<>>
    /\ waited' = 0
    /\ held' = 0
    /\ pc' = "apply"
    /\ UNCHANGED <<Conf, Ch, item, sending, result, store, seed, entered, deq,
                   committed, failed, updates, err, kv, kvRes, resp, scope, proof>>

\* What handleBatch returns as the carried-over seed when obj's namespace
\* differs from the seed's (line 113 returns seed).
ForeignCarry(s, o) == s

\* Whether obj belongs to the seed's namespace (line 112, bytes.Equal).
SameNamespaceAlways(s, o) == TRUE

SameNamespace(s, o) == item[s].ns = item[o].ns

\* Whether the batch has used up its count (line 120).
CountDone(c) == c = 0

\* handleBatch, lines 112-122: one turn of the loop on obj. A return ends
\* the scope of handleBatch's locals obj, cnt and curSize.
handleBatchApply ==
    /\ pc = "apply"
    /\ LET r == ApplyMutation(wrapper, curSize, item[obj].mut)
       IN  IF ~SameNamespace(seed, obj)
           THEN \* return curSize, seed, nil
                /\ nextSize' = curSize
                /\ seed' = ForeignCarry(seed, obj)
                /\ pc' = "save"
                /\ obj' = 0 /\ cnt' = 0 /\ curSize' = 0
                /\ UNCHANGED <<wrapper, batch, failed, waited, err>>
           ELSE IF r.err # "nil"
           THEN \* return 0, nil, err; consume: log.Fatal(err)
                /\ nextSize' = 0
                /\ seed' = 0
                /\ pc' = "fatal"
                /\ failed' = Append(batch, obj)
                /\ err' = r.err
                /\ obj' = 0 /\ cnt' = 0 /\ curSize' = 0
                /\ UNCHANGED <<wrapper, batch, waited>>
           ELSE /\ wrapper' = r.kw
                /\ batch' = Append(batch, obj)
                /\ waited' = 0
                /\ UNCHANGED <<failed, err>>
                /\ IF CountDone(cnt - 1)
                   THEN \* return curSize, nil, nil
                        /\ nextSize' = r.size
                        /\ seed' = 0
                        /\ pc' = "save"
                        /\ obj' = 0 /\ cnt' = 0 /\ curSize' = 0
                   ELSE /\ pc' = "select"
                        /\ curSize' = r.size
                        /\ cnt' = cnt - 1
                        /\ UNCHANGED <<nextSize, seed, obj>>
    /\ UNCHANGED <<Conf, Ch, item, sending, result, store, startSize,
                   batchNs, held, entered, deq, committed, updates, kv, kvRes, resp, scope, proof>>

\* handleBatch, line 124: the select receives the next item.
handleBatchReceive ==
    /\ pc = "select"
    /\ \E id \in Receivable :
          /\ Receive(id)
          /\ obj' = id
    /\ pc' = "apply"
    /\ UNCHANGED <<Conf, item, store, seed, cnt, curSize, startSize, nextSize,
                   wrapper, batchNs, waited, held, batch, committed, failed,
                   updates, err, kv, kvRes, resp, scope, proof>>

\* Whether time.After(bm.Conf.Timeout) has fired in the current select.
TimerFired(w, h) == w >= Conf.Timeout

\* handleBatch, lines 128-129: the select times out: return curSize, nil, nil.
handleBatchTimeout ==
    /\ pc = "select"
    /\ TimerFired(waited, held)
    /\ nextSize' = curSize
    /\ seed' = 0
    /\ pc' = "save"
    /\ obj' = 0 /\ cnt' = 0 /\ curSize' = 0
    /\ UNCHANGED <<Conf, Ch, item, sending, result, store,
                   startSize, wrapper, batchNs, waited, held, entered, deq, batch,
                   committed, failed, updates, err, kv, kvRes, resp, scope, proof>>

\* One clock tick passes while the select waits with nothing to receive.
Tick ==
    /\ pc = "select"
    /\ Receivable = {}
    /\ ~TimerFired(waited, held)
    /\ waited' = waited + 1
    /\ held' = held + 1
    /\ UNCHANGED <<Conf, Ch, item, sending, result, store, pc, seed, obj, cnt,
                   curSize, startSize, nextSize, wrapper, batchNs, entered, deq,
                   batch, committed, failed, updates, err, kv, kvRes, resp, scope, proof>>

\* Whether consume saves the batch out (line 171).
ShouldSave(next, start) == next > start

\* The store after ExecuteUpdate(ns, ...) of lines 172-180 commits.
Saved(db, L, size) == writeObjectSize(Replay(db, L), size)

\* After a batch: back to the top of consume's loop (line 139).
AfterBatch == IF seed = 0 THEN "idle" ELSE "start"

\* The end of one turn of consume's loop: its locals wrapper, startSize,
\* nextSize and ns go out of scope.
EndOfTurn ==
    /\ wrapper' = IdleOverlay
    /\ startSize' = 0
    /\ nextSize' = 0
    /\ batchNs' = 0
    /\ batch' = <<>>
    /\ waited' = 0
    /\ held' = 0

\* consume, lines 171-184, with ExecuteUpdate committing (or not needed).
consumeSave ==
    /\ pc = "save"
    /\ IF ShouldSave(nextSize, startSize)
       THEN /\ store' = [store EXCEPT ![batchNs] = Saved(@, wrapper.L, nextSize)]
            /\ updates' = updates + 1
       ELSE UNCHANGED <<store, updates>>
    /\ committed' = [committed EXCEPT ![batchNs] = @ \o batch]
    /\ pc' = AfterBatch
    /\ EndOfTurn
    /\ UNCHANGED <<Conf, Ch, item, sending, result, seed, obj, cnt, curSize,
                   entered, deq, failed, err, kv, kvRes, resp, scope, proof>>

\* consume, lines 172-183, with ExecuteUpdate failing: the substrate
\* discards the scope's writes and consume calls log.Fatal.
consumeSaveFails ==
    /\ pc = "save"
    /\ ShouldSave(nextSize, startSize)
    /\ updates' = updates + 1
    /\ failed' = batch
    /\ err' = "StorageUnavailable"
    /\ pc' = "fatal"
    /\ UNCHANGED <<Conf, Ch, item, sending, result, store, seed, obj, cnt,
                   curSize, startSize, nextSize, wrapper, batchNs, waited, held,
                   entered, deq, batch, committed, kv, kvRes, resp, scope, proof>>

Next ==
    \/ \E ns \in Namespaces, mut \in Mutations : QueueMutation(ns, mut)
    \/ \E id \in Ids : QueueMutationUnblock(id)
    \/ consumeAwaitSeed
    \/ consumeOpenBatch
    \/ handleBatchApply
    \/ handleBatchReceive
    \/ handleBatchTimeout
    \/ Tick
    \/ consumeSave
    \/ consumeSaveFails

Spec == Init /\ [][Next]_vars

\* -------------------------------------------- the overlay alone (SpecKV)

\* Number of Set calls made on one overlay.
MaxSets == 2

\* Buckets and keys as byte strings, chosen so that two different
\* (bucket, key) pairs have the same concatenated hex encoding.
KVBuckets == {<<1>>, <<1, 2>>}
KVKeys == {<<>>, <<2>>}
KVValues == {<<1>>, <<2>>}
KVPairs == KVBuckets \X KVKeys

\* The parent KeyReader of the overlay: any store over those pairs.
KVParents ==
    UNION {[D -> KVValues] : D \in SUBSET KVPairs}

\* No batch mutator runs in SpecKV and SpecService.
NoMutator ==
    /\ Conf = [BatchSize |-> 1, BufferSize |-> 0, Timeout |-> 0]
    /\ MutatorCreated

InitKV ==
    /\ NoMutator
    /\ kv \in {NewWrapper(parent) : parent \in KVParents}
    /\ kvRes = [op |-> "none"]
    /\ resp = [op |-> "none"]
    /\ scope = NoScope
    /\ proof = NoProof

\* wrapper.Get(bucket, key, value)
KVCallGet(bucket, key) ==
    /\ kvRes' = [op |-> "Get", bucket |-> bucket, key |-> key,
                 ret |-> mapNoLockDBGet(kv, bucket, key)]
    /\ UNCHANGED <<kv, resp, scope, proof>>
    /\ UNCHANGED mutVars

\* wrapper.Set(bucket, key, value)
KVCallSet(bucket, key, value) ==
    /\ Len(kv.L) < MaxSets
    /\ kv' = mapNoLockDBSet(kv, bucket, key, value)
    /\ kvRes' = [op |-> "Set", bucket |-> bucket, key |-> key,
                 ret |-> [err |-> "nil", value |-> value]]
    /\ UNCHANGED <<resp, scope, proof>>
    /\ UNCHANGED mutVars

NextKV ==
    \/ \E bucket \in KVBuckets, key \in KVKeys : KVCallGet(bucket, key)
    \/ \E bucket \in KVBuckets, key \in KVKeys, value \in KVValues :
          KVCallSet(bucket, key, value)

SpecKV == InitKV /\ [][NextKV]_vars

\* ------------------------------- instant mutator, LogTreeHash (SpecService)

\* Largest tree_size a LogTreeHash request carries (the smallest is -1).
MaxTreeSize == 3

\* lookupLogTreeHead: meta/head as (TreeSize, RootHash); a log with no head
\* yet has size 0 and the all-zero root.
lookupLogTreeHead(kr) == HeadOf(KVGet(kr, MetaBucket, HeadKey))

\* lookupLogRootHashBySize: the root over the first n leaves, folded from
\* the stored entries.
RECURSIVE lookupLogRootHashBySize(_, _)
lookupLogRootHashBySize(kr, n) ==
    IF n = 0 THEN 0
    ELSE 3 * lookupLogRootHashBySize(kr, n - 1)
         + KVGet(kr, EntryBucket, <<n - 1>>).value[1]

\* Line 49: the requested size is one whose head is at hand.
HaveItOnlyAtHead(n, head) == n = head[1]

HaveIt(n, head) == n = 0 \/ n = head[1]

\* Line 55: the requested size is beyond the log's head.
TooLargeBeyondNext(n, head) == n > head[1] + 1

TooLarge(n, head) == n > head[1]

\* Whether lookupLogRootHashBySize finds the n leaves it folds.
HasLeaves(kr, n) ==
    \A i \in 0..(n - 1) : KVGet(kr, EntryBucket, <<i>>).err = "nil"

\* LogTreeHash's read-only scope (lines 42-69) on the snapshot kr.
LogTreeHashScope(kr, n) ==
    LET head == lookupLogTreeHead(kr)
    IN  IF HaveIt(n, head) THEN [err |-> "nil", rv |-> head]
        ELSE IF TooLarge(n, head) THEN [err |-> "ErrInvalidTreeRange", rv |-> <<>>]
        ELSE IF ~HasLeaves(kr, n) THEN [err |-> ErrNoSuchKey, rv |-> <<>>]
        ELSE [err |-> "nil", rv |-> <<n, lookupLogRootHashBySize(kr, n)>>]

\* LogTreeHash(ctx, req), lines 27-75: allowed is the access check's verdict,
\* valid whether logBucket accepts req.Log.
LogTreeHashResult(allowed, valid, kr, n) ==
    IF ~allowed THEN [err |-> "ErrNotAuthorized", rv |-> <<>>, scopes |-> 0]
    ELSE IF n < 0 THEN [err |-> "ErrInvalidTreeRange", rv |-> <<>>, scopes |-> 0]
    ELSE IF ~valid THEN [err |-> "ErrInvalidRequest", rv |-> <<>>, scopes |-> 0]
    ELSE [err |-> LogTreeHashScope(kr, n).err, rv |-> LogTreeHashScope(kr, n).rv,
          scopes |-> 1]

\* The KeyReader the lookups of the scope read: the snapshot taken when
\* ExecuteReadOnly opened the scope (line 42), whatever has been committed
\* since.
ScopeReaderLatest(snapshot, latest) == latest

ScopeReader(snapshot, latest) == snapshot

\* LogTreeHash(ctx, req), lines 27-42: the checks before the scope, and
\* ExecuteReadOnly opening the scope on the namespace's committed state.
LogTreeHash(ns, n, allowed, valid) ==
    /\ ~scope.open
    /\ IF ~allowed \/ n < 0 \/ ~valid
       THEN /\ resp' = [op |-> "LogTreeHash", ns |-> ns, TreeSize |-> n,
                        allowed |-> allowed, valid |-> valid, kr |-> store[ns],
                        ret |-> LogTreeHashResult(allowed, valid, store[ns], n)]
            /\ scope' = scope
       ELSE /\ resp' = [op |-> "ExecuteReadOnly", ns |-> ns]
            /\ scope' = [open |-> TRUE, at |-> "head", ns |-> ns,
                         TreeSize |-> n, kr |-> store[ns]]
    /\ UNCHANGED <<Conf, Ch, item, sending, result, store, pc, seed, obj, cnt,
                   curSize, startSize, nextSize, wrapper, batchNs, waited, held,
                   entered, deq, batch, committed, failed, updates, err, kv, kvRes, proof>>

\* The response of a LogTreeHash whose scope returned ret.
ScopeResponse(ret) ==
    [op |-> "LogTreeHash", ns |-> scope.ns, TreeSize |-> scope.TreeSize,
     allowed |-> TRUE, valid |-> TRUE, kr |-> scope.kr,
     ret |-> [err |-> ret.err, rv |-> ret.rv, scopes |-> 1]]

\* Inside the scope, lines 44-57: the head lookup and the two tests on it.
LogTreeHashHead ==
    /\ scope.open /\ scope.at = "head"
    /\ LET head == lookupLogTreeHead(ScopeReader(scope.kr, store[scope.ns]))
       IN  IF HaveIt(scope.TreeSize, head)
           THEN /\ resp' = ScopeResponse([err |-> "nil", rv |-> head])
                /\ scope' = NoScope
           ELSE IF TooLarge(scope.TreeSize, head)
           THEN /\ resp' = ScopeResponse([err |-> "ErrInvalidTreeRange", rv |-> <<>>])
                /\ scope' = NoScope
           ELSE /\ resp' = [op |-> "lookupLogTreeHead", ns |-> scope.ns]
                /\ scope' = [scope EXCEPT !.at = "root"]
    /\ UNCHANGED <<Conf, Ch, item, sending, result, store, pc, seed, obj, cnt,
                   curSize, startSize, nextSize, wrapper, batchNs, waited, held,
                   entered, deq, batch, committed, failed, updates, err, kv, kvRes, proof>>

\* Inside the scope, lines 59-68: the root-by-size lookup, and the return.
LogTreeHashRoot ==
    /\ scope.open /\ scope.at = "root"
    /\ LET kr == ScopeReader(scope.kr, store[scope.ns])
       IN  resp' = ScopeResponse(
                     IF ~HasLeaves(kr, scope.TreeSize)
                     THEN [err |-> ErrNoSuchKey, rv |-> <<>>]
                     ELSE [err |-> "nil",
                           rv |-> <<scope.TreeSize,
                                    lookupLogRootHashBySize(kr, scope.TreeSize)>>])
    /\ scope' = NoScope
    /\ UNCHANGED <<Conf, Ch, item, sending, result, store, pc, seed, obj, cnt,
                   curSize, startSize, nextSize, wrapper, batchNs, waited, held,
                   entered, deq, batch, committed, failed, updates, err, kv, kvRes, proof>>

\* An ExecuteUpdate that keeps the scope's outcome whatever the applier returned.
InstantUpdateCommitsAlways(db, mut) ==
    LET r == ApplyMutation(NewWrapper(db), readObjectSize(db), mut)
    IN  [err |-> r.err, db |-> Saved(db, r.kw.L, r.size)]

\* The outcome of ExecuteUpdate(ns, ApplyMutation(kw, mut)) on db: the error
\* the scope returned and the store it leaves (its writes and the new size
\* when the applier succeeds, db itself when it fails).
InstantUpdate(db, mut) ==
    LET r == ApplyMutation(NewWrapper(db), readObjectSize(db), mut)
    IN  IF r.err # "nil" THEN [err |-> r.err, db |-> db]
        ELSE [err |-> "nil", db |-> Saved(db, r.kw.L, r.size)]

\* InstantMutator.QueueMutation(ns, mut), lines 67-74, and WaitUntilDone.
InstantQueueMutation(ns, mut) ==
    /\ store' = [store EXCEPT ![ns] = InstantUpdate(@, mut).db]
    /\ resp' = [op |-> "QueueMutation", ns |-> ns, mut |-> mut,
                before |-> store[ns], scopes |-> 1, applied |-> <<mut>>,
                ret |-> [err |-> "nil", WaitUntilDone |-> InstantUpdate(store[ns], mut).err]]
    /\ UNCHANGED <<Conf, Ch, item, sending, result, pc, seed, obj, cnt,
                   curSize, startSize, nextSize, wrapper, batchNs, waited, held,
                   entered, deq, batch, committed, failed, updates, err, kv, kvRes, scope, proof>>

\* Lines 28-31 of LogCreate: the access check refused the request.
AccessDeniedNever(allowed) == FALSE

AccessDenied(allowed) == ~allowed

\* Lines 32-37 of LogCreate: the request is no valid log creation.
InvalidCreateIgnoringName(typeOk, nameOk) == ~typeOk

InvalidCreate(typeOk, nameOk) == ~typeOk \/ ~nameOk

\* LogCreate(ctx, req), lines 27-49, with the instant mutator as s.Mutator:
\* the error returned (nil: a LogCreateResponse), the number of QueueMutation
\* calls made, the number of storage scopes opened and the store left.
\* mutatorUp is whether s.Mutator.QueueMutation hands back a promise.
LogCreateResult(allowed, typeOk, nameOk, mutatorUp, db) ==
    IF AccessDenied(allowed)
    THEN [err |-> "ErrNotAuthorized", queued |-> 0, scopes |-> 0, db |-> db]
    ELSE IF InvalidCreate(typeOk, nameOk)
    THEN [err |-> "ErrInvalidRequest", queued |-> 0, scopes |-> 0, db |-> db]
    ELSE IF ~mutatorUp
    THEN [err |-> "StorageUnavailable", queued |-> 1, scopes |-> 0, db |-> db]
    ELSE [err |-> InstantUpdate(db, LogCreateMutation).err, queued |-> 1,
          scopes |-> 1, db |-> InstantUpdate(db, LogCreateMutation).db]

\* The requests of the service are taken one after another; the writer that
\* commits while a read-only scope is open is the mutator (InstantQueueMutation).
LogCreate(ns, allowed, typeOk, nameOk, mutatorUp) ==
    /\ ~scope.open
    /\ resp' = [op |-> "LogCreate", ns |-> ns, allowed |-> allowed,
                typeOk |-> typeOk, nameOk |-> nameOk, mutatorUp |-> mutatorUp,
                before |-> store[ns],
                ret |-> LogCreateResult(allowed, typeOk, nameOk, mutatorUp, store[ns])]
    /\ store' = [store EXCEPT ![ns] =
                    LogCreateResult(allowed, typeOk, nameOk, mutatorUp, @).db]
    /\ UNCHANGED <<Conf, Ch, item, sending, result, pc, seed, obj, cnt,
                   curSize, startSize, nextSize, wrapper, batchNs, waited, held,
                   entered, deq, batch, committed, failed, updates, err, kv, kvRes, scope, proof>>

InitService ==
    /\ NoMutator
    /\ kv = IdleOverlay
    /\ kvRes = [op |-> "none"]
    /\ resp = [op |-> "none"]
    /\ scope = NoScope
    /\ proof = NoProof

NextService ==
    \/ \E ns \in Namespaces, mut \in Mutations : InstantQueueMutation(ns, mut)
    \/ \E ns \in Namespaces, n \in (-1)..MaxTreeSize, allowed \in BOOLEAN,
          valid \in BOOLEAN : LogTreeHash(ns, n, allowed, valid)
    \/ LogTreeHashHead
    \/ LogTreeHashRoot
    \/ \E ns \in Namespaces, allowed \in BOOLEAN, typeOk \in BOOLEAN,
          nameOk \in BOOLEAN, mutatorUp \in BOOLEAN :
          LogCreate(ns, allowed, typeOk, nameOk, mutatorUp)

SpecService == InitService /\ [][NextService]_vars

\* ------------------------------- the map client's audit path (SpecProof)

\* Strings are sequences of one-character strings.
Digits == {"0", "1", "2", "3", "4", "5", "6", "7", "8", "9"}
DigitVal(c) ==
    CASE c = "0" -> 0 [] c = "1" -> 1 [] c = "2" -> 2 [] c = "3" -> 3 [] c = "4" -> 4
      [] c = "5" -> 5 [] c = "6" -> 6 [] c = "7" -> 7 [] c = "8" -> 8 [] c = "9" -> 9
HexChars == Digits \cup {"a", "b", "c", "d", "e", "f"}
HexVal(c) ==
    CASE c \in Digits -> DigitVal(c)
      [] c = "a" -> 10 [] c = "b" -> 11 [] c = "c" -> 12
      [] c = "d" -> 13 [] c = "e" -> 14 [] c = "f" -> 15

\* The position of the first sep in s, 0 if there is none.
IndexOf(s, sep) ==
    IF \E i \in 1..Len(s) : s[i] = sep
    THEN CHOOSE i \in 1..Len(s) : s[i] = sep /\ \A j \in 1..(i - 1) : s[j] # sep
    ELSE 0

\* strings.Split(s, sep): always at least one piece.
RECURSIVE Split(_, _)
Split(s, sep) ==
    IF IndexOf(s, sep) = 0 THEN <<s>>
    ELSE <<SubSeq(s, 1, IndexOf(s, sep) - 1)>>
         \o Split(SubSeq(s, IndexOf(s, sep) + 1, Len(s)), sep)

\* strings.SplitN(s, sep, 2): split at the first sep only.
SplitN2(s, sep) ==
    IF IndexOf(s, sep) = 0 THEN <<s>>
    ELSE <<SubSeq(s, 1, IndexOf(s, sep) - 1), SubSeq(s, IndexOf(s, sep) + 1, Len(s))>>

\* strings.TrimSpace(s)
RECURSIVE TrimSpace(_)
TrimSpace(s) ==
    IF s = <<>> THEN s
    ELSE IF s[1] = " " THEN TrimSpace(Tail(s))
    ELSE IF s[Len(s)] = " " THEN TrimSpace(SubSeq(s, 1, Len(s) - 1))
    ELSE s

\* The number a string of digits denotes.
RECURSIVE DecimalVal(_)
DecimalVal(s) ==
    IF s = <<>> THEN 0
    ELSE 10 * DecimalVal(SubSeq(s, 1, Len(s) - 1)) + DigitVal(s[Len(s)])

\* strconv.Atoi(s): an optional sign and at least one digit, nothing else.
Atoi(s) ==
    LET signed == s # <<>> /\ s[1] \in {"+", "-"}
        ds     == IF signed THEN Tail(s) ELSE s
    IN  IF ds = <<>> \/ \E i \in 1..Len(ds) : ds[i] \notin Digits
        THEN [err |-> "ErrSyntax", val |-> 0]
        ELSE [err |-> "nil",
              val |-> IF signed /\ s[1] = "-" THEN 0 - DecimalVal(ds) ELSE DecimalVal(ds)]

\* hex.DecodeString(s): pairs of hex digits, to bytes.
RECURSIVE DecodeBytes(_)
DecodeBytes(s) ==
    IF s = <<>> THEN <<>>
    ELSE <<16 * HexVal(s[1]) + HexVal(s[2])>> \o DecodeBytes(SubSeq(s, 3, Len(s)))

DecodeString(s) ==
    IF \E i \in 1..Len(s) : s[i] \notin HexChars
    THEN [err |-> "InvalidByteError", bs |-> <<>>]
    ELSE IF Len(s) % 2 = 1 THEN [err |-> "ErrLength", bs |-> <<>>]
    ELSE [err |-> "nil", bs |-> DecodeBytes(s)]

\* The length of an audit path (line 79).
PathLen == 256

\* Header values in one response, and "index/hash" elements in one value.
MaxHeaders == 2
MaxElems == 2

\* make([][]byte, 256): every slot empty.
EmptyPath == [i \in 0..(PathLen - 1) |-> <<>>]

\* Line 95: the index test before the store into prv.
IndexTestBothEnds(idx) == 0 <= idx /\ idx < PathLen

IndexTest(idx) == idx < PathLen

\* Lines 84-98: one comma-separated element, on the state [err, prv] of the
\* loop. A store outside prv's 256 slots is a runtime panic.
parseElement(st, commad) ==
    LET bits == SplitN2(commad, "/")
    IN  IF st.err # "nil" \/ Len(bits) # 2 THEN st
        ELSE LET idx == Atoi(TrimSpace(bits[1]))
                 bs  == DecodeString(TrimSpace(bits[2]))
             IN  IF idx.err # "nil" THEN [err |-> idx.err, prv |-> <<>>]
                 ELSE IF bs.err # "nil" THEN [err |-> bs.err, prv |-> <<>>]
                 ELSE IF ~IndexTest(idx.val) THEN st
                 ELSE IF idx.val \notin DOMAIN st.prv
                 THEN [err |-> "panic: index out of range", prv |-> <<>>]
                 ELSE [err |-> "nil", prv |-> [st.prv EXCEPT ![idx.val] = bs.bs]]

\* Lines 82-99: the two loops, over the header values and their elements.
RECURSIVE parseElements(_, _)
parseElements(st, els) ==
    IF els = <<>> THEN st
    ELSE parseElements(parseElement(st, Head(els)), Tail(els))

RECURSIVE parseValues(_, _)
parseValues(st, hs) ==
    IF hs = <<>> THEN st
    ELSE parseValues(parseElements(st, Split(Head(hs), ",")), Tail(hs))

\* parseHeadersForProof(headers), lines 78-102, on the X-Verified-Proof
\* values of the response (none: the header is absent).
parseHeadersForProof(hs) == parseValues([err |-> "nil", prv |-> EmptyPath], hs)

\* The elements a server may send: the text, and what it stands for.
Chars(e) == e.text
ProofElems ==
    { [text |-> <<"0", "/", "a", "b">>, kind |-> "pair", idx |-> 0, hash |-> <<171>>],
      [text |-> <<"0", "/", "c", "d">>, kind |-> "pair", idx |-> 0, hash |-> <<205>>],
      [text |-> <<" ", "2", "5", "5", " ", "/", " ", "0", "1", " ">>,
       kind |-> "pair", idx |-> 255, hash |-> <<1>>],
      [text |-> <<"2", "5", "6", "/", "a", "b">>, kind |-> "pair", idx |-> 256, hash |-> <<171>>],
      [text |-> <<"-", "1", "/", "a", "b">>, kind |-> "pair", idx |-> 0 - 1, hash |-> <<171>>],
      [text |-> <<"x", "/", "a", "b">>, kind |-> "bad", idx |-> 0, hash |-> <<>>],
      [text |-> <<"1", "/", "z", "z">>, kind |-> "bad", idx |-> 1, hash |-> <<>>],
      [text |-> <<"7">>, kind |-> "skipped", idx |-> 7, hash |-> <<>>] }

SeqsUpTo(S, n) == UNION {[1..k -> S] : k \in 0..n}

\* A header value: its elements joined by commas.
RECURSIVE Join(_)
Join(els) ==
    IF els = <<>> THEN <<>>
    ELSE IF Len(els) = 1 THEN Chars(els[1])
    ELSE Chars(els[1]) \o <<",">> \o Join(Tail(els))

\* The responses: up to MaxHeaders header values of up to MaxElems elements.
ProofInputs == SeqsUpTo(SeqsUpTo(ProofElems, MaxElems), MaxHeaders)

Render(input) == [k \in 1..Len(input) |-> Join(input[k])]

InitProof ==
    /\ NoMutator
    /\ kv = IdleOverlay
    /\ kvRes = [op |-> "none"]
    /\ resp = [op |-> "none"]
    /\ scope = NoScope
    /\ \E input \in ProofInputs :
          proof = [called |-> FALSE, sent |-> input, headers |-> Render(input)]

\* verifiableMapImpl.Get, lines 114-117 and 129-134: the audit path of the
\* proof it returns is what parseHeadersForProof made of the headers.
Get ==
    /\ ~proof.called
    /\ proof' = [called |-> TRUE, sent |-> proof.sent, headers |-> proof.headers,
                 ret |-> parseHeadersForProof(proof.headers)]
    /\ UNCHANGED <<kv, kvRes, resp, scope>>
    /\ UNCHANGED mutVars

NextProof == Get

SpecProof == InitProof /\ [][NextProof]_vars

\* ------------------------------------------------------- history operators

Range(f) == {f[i] : i \in DOMAIN f}

IsPrefix(p, q) == Len(p) <= Len(q) /\ SubSeq(q, 1, Len(p)) = p

\* The ids of seq whose chObject is in namespace ns, in seq's order.
RECURSIVE ForNamespace(_, _)
ForNamespace(seq, ns) ==
    IF seq = <<>> THEN <<>>
    ELSE (IF item[Head(seq)].ns = ns THEN <<Head(seq)>> ELSE <<>>)
         \o ForNamespace(Tail(seq), ns)

\* The consumer awaits a seed, nothing is buffered and no caller is blocked.
Quiescent == pc = "idle" /\ Ch = <<>> /\ sending = {}

\* ------------------------------------------------------------------ claims

\* C1: for every namespace the sequence of mutations the consumer applies
\* and commits is exactly the sequence enqueued for that namespace: at every
\* moment a prefix of it (same items, same order, each once), and all of it
\* once the consumer is idle with nothing left to receive.
C1_CommitOrderIsEnqueueOrder ==
    \A ns \in Namespaces :
        /\ IsPrefix(committed[ns], ForNamespace(entered, ns))
        /\ Quiescent => committed[ns] = ForNamespace(entered, ns)

\* C2: no mutation the consumer has taken from the channel is silently
\* dropped: it is in the consumer's hands (seed or obj), applied in the
\* current batch, in a finished batch of its namespace, or in the batch
\* that failed.
C2_NoMutationDropped ==
    \A i \in DOMAIN deq :
        \/ deq[i] \in {seed, obj}
        \/ deq[i] \in Range(batch)
        \/ deq[i] \in Range(committed[item[deq[i]].ns])
        \/ deq[i] \in Range(failed)

\* Whether a read-only scope opened now on ns observes the committed effects
\* of mutation mut: the entry is indexed and the object size has advanced.
Observes(ns, mut) ==
    /\ KVGet(store[ns], IndexLeafBucket, LeafHash(mut.entry)).err = "nil"
    /\ readObjectSize(store[ns]) >= 1

\* C3: once QueueMutation has given its caller the completion signal (it
\* returned nil) for a mutation the applier accepts, a read-only scope
\* opened afterwards on that namespace observes the mutation's effects.
C3_ReadAfterWrite ==
    \A id \in DOMAIN item :
        (Running /\ result[id] = "nil" /\ item[id].mut.kind = "LogAdd")
            => Observes(item[id].ns, item[id].mut)

\* C4: when ApplyMutation fails for an item of a batch, the store is as it
\* was when the batch began, and the callers of all items of that batch are
\* given that error (none of them was told nil).
C4_FailedBatchFailsItsCallers ==
    (pc = "fatal" /\ err = "ErrNotImplemented") =>
        /\ store[batchNs] = wrapper.Parent
        /\ \A i \in DOMAIN failed : result[failed[i]] = err

\* The part of C4 the code keeps: an ApplyMutation failure opens no
\* ExecuteUpdate and leaves the whole store as it was.
FailedApplyLeavesStore ==
    [][(pc = "apply" /\ pc' = "fatal") => (store' = store /\ updates' = updates)]_vars

\* The consumer is inside a batch: from the opening of the read-only scope
\* to the save.
InBatch == pc \in {"apply", "select", "save"}

\* The indices of the ops of L that set (bucket, key).
SetsOf(L, bk) == {i \in DOMAIN L : <<L[i].Bucket, L[i].Key>> = bk}

Max(S) == CHOOSE x \in S : \A y \in S : y <= x

\* What a committed batch must leave in its namespace: the pre-batch state
\* with, for every (bucket, key) set in the batch, the value of the last Set
\* in batch order, and the object size next.
Expected(pre, L, next) ==
    [bk \in DOMAIN pre \cup {<<L[i].Bucket, L[i].Key>> : i \in DOMAIN L}
           \cup {<<MetaBucket, SizeKey>>} |->
        IF bk = <<MetaBucket, SizeKey>> THEN <<next>>
        ELSE IF SetsOf(L, bk) # {} THEN L[Max(SetsOf(L, bk))].Value
        ELSE pre[bk]]

\* The size returned by applying the mutations ids in order, through one
\* overlay kw, from size.
RECURSIVE SizeAfter(_, _, _)
SizeAfter(kw, size, ids) ==
    IF ids = <<>> THEN size
    ELSE LET r == ApplyMutation(kw, size, item[Head(ids)].mut)
         IN  SizeAfter(r.kw, r.size, Tail(ids))

\* C5: a batch is committed atomically and faithfully. While the batch is
\* applied its namespace's stored state is the state read at batch start;
\* the step that commits it leaves the pre-batch state with the last Set of
\* every (bucket, key) in batch order and the size obtained by applying the
\* batch's mutations in order from the size read at batch start; a batch
\* that is not saved, and an ExecuteUpdate that fails, leave the store as
\* it was.
C5_BatchCommitFaithful ==
    /\ [](InBatch => store[batchNs] = wrapper.Parent)
    /\ [][(pc = "save" /\ pc' # "save") =>
            IF pc' # "fatal" /\ nextSize > startSize
            THEN /\ store'[batchNs] = Expected(wrapper.Parent, wrapper.L, nextSize)
                 /\ readObjectSize(store'[batchNs]) =
                        SizeAfter(NewWrapper(wrapper.Parent), startSize, batch)
                 /\ updates' = updates + 1
            ELSE store' = store]_vars

\* C5's case: one ExecuteUpdate has committed a batch of two appends, whose
\* second Set of meta/head replaced the first.
C5_Witness ==
    \E ns \in Namespaces :
        /\ updates = 1
        /\ readObjectSize(store[ns]) = 2
        /\ KVGet(store[ns], MetaBucket, HeadKey).value[1] = 2

\* C7: no batch applies more than BatchSize mutations.
C7_BatchWithinBatchSize == Len(batch) <= Conf.BatchSize

\* The part of C7 the code keeps: a BatchSize of at least 1 bounds the batch.
PositiveBatchSizeBounds == Conf.BatchSize >= 1 => Len(batch) <= Conf.BatchSize

\* C8: a batch handed to the commit step has been held, in time spent
\* waiting on the channel, no longer than Timeout (stated for the
\* configurations whose BatchSize is at least 1).
C8_HeldWithinTimeout ==
    (pc = "save" /\ Conf.BatchSize >= 1) => held <= Conf.Timeout

\* What the select does bound: the wait for each next item.
EachWaitWithinTimeout == waited <= Conf.Timeout

BlockedWhileFull ==
    [][\A id \in sending :
          (Len(Ch) >= Conf.BufferSize /\ deq' = deq) => id \in sending']_vars

C6_ReadYourWrites ==
    /\ [](kvRes.op = "Get" =>
            LET sets == SetsOf(kv.L, <<kvRes.bucket, kvRes.key>>)
            IN  IF sets # {}
                THEN kvRes.ret = [err |-> "nil", value |-> kv.L[Max(sets)].Value]
                ELSE kvRes.ret = KVGet(kv.Parent, kvRes.bucket, kvRes.key))
    /\ [][kv'.Parent = kv.Parent]_vars

\* C6's case: a Get answered from the second of two Sets of its key, which
\* gave different values, over a parent holding the pair whose hex encodings
\* concatenate to the same characters.
C6_Witness ==
    /\ kvRes.op = "Get"
    /\ kvRes.bucket = <<1>> /\ kvRes.key = <<2>>
    /\ <<<<1, 2>>, <<>>>> \in DOMAIN kv.Parent
    /\ Len(kv.L) = 2
    /\ SetsOf(kv.L, <<kvRes.bucket, kvRes.key>>) = {1, 2}
    /\ kv.L[1].Value # kv.L[2].Value

\* Inside a batch an append sees what an earlier append of the same batch
\* wrote: no leaf hash is indexed twice in one replay list.
ReadsEarlierWritesOfBatch ==
    \A i, j \in DOMAIN wrapper.L :
        (i # j /\ wrapper.L[i].Bucket = IndexLeafBucket
               /\ wrapper.L[j].Bucket = IndexLeafBucket)
            => wrapper.L[i].Key # wrapper.L[j].Key

\* C10 as stated: LogTreeHash with tree_size 0 returns tree size 0 and the
\* all-zero root hash, whatever the log holds.
C10_ZeroGivesEmptyTree ==
    (resp.op = "LogTreeHash" /\ resp.TreeSize = 0 /\ resp.ret.err = "nil")
        => resp.ret.rv = <<0, 0>>

\* C10 amended: LogTreeHash with tree_size 0 returns the log's current tree
\* head: its current size and the root over all its leaves, which is size 0
\* and the all-zero root exactly when the log is empty.
C10_ZeroGivesCurrentHead ==
    (resp.op = "LogTreeHash" /\ resp.TreeSize = 0 /\ resp.ret.err = "nil")
        => LET db == resp.kr
           IN  /\ resp.ret.rv[1] = readObjectSize(db)
               /\ resp.ret.rv[2] = lookupLogRootHashBySize(db, readObjectSize(db))
               /\ (resp.ret.rv = <<0, 0>>) = (readObjectSize(db) = 0)

\* C10's case: tree_size 0 asked of a log holding two entries.
C10_Witness ==
    /\ resp.op = "LogTreeHash" /\ resp.TreeSize = 0 /\ resp.ret.err = "nil"
    /\ readObjectSize(resp.kr) = 2

\* C11: for an authorized request on a valid log, LogTreeHash returns
\* ErrInvalidTreeRange exactly when tree_size is negative or greater than
\* the log's persisted size, then with no response; every tree_size n with
\* 0 < n <= size succeeds with a response whose TreeSize is n; and no
\* LogTreeHash call changes the store.
C11_InvalidTreeRange ==
    /\ []((resp.op = "LogTreeHash" /\ resp.allowed /\ resp.valid) =>
            LET size == readObjectSize(resp.kr)
                n    == resp.TreeSize
            IN  /\ (resp.ret.err = "ErrInvalidTreeRange") = (n < 0 \/ n > size)
                /\ resp.ret.err # "nil" => resp.ret.rv = <<>>
                /\ (0 < n /\ n <= size) =>
                      (resp.ret.err = "nil" /\ resp.ret.rv[1] = n))
    /\ [][resp'.op = "LogTreeHash" => store' = store]_vars

\* C11's case: a log of one entry asked for tree_size 2 and refused.
C11_Witness ==
    /\ resp.op = "LogTreeHash" /\ resp.allowed /\ resp.valid
    /\ readObjectSize(resp.kr) = 1
    /\ resp.TreeSize = 2
    /\ resp.ret.err = "ErrInvalidTreeRange"

\* C12: authorization gates every request. A LogCreate or LogTreeHash the
\* access check denies returns the authorization error, whatever else is
\* wrong with the request, having enqueued no mutation, opened no storage
\* scope and left the store as it was.
C12_AuthorizationFirst ==
    /\ []((resp.op = "LogCreate" /\ ~resp.allowed) =>
            /\ resp.ret.err = "ErrNotAuthorized"
            /\ resp.ret.queued = 0
            /\ resp.ret.scopes = 0
            /\ store[resp.ns] = resp.before)
    /\ []((resp.op = "LogTreeHash" /\ ~resp.allowed) =>
            /\ resp.ret.err = "ErrNotAuthorized"
            /\ resp.ret.scopes = 0)
    /\ [][(resp'.op \in {"LogCreate", "LogTreeHash"} /\ ~resp'.allowed)
             => store' = store]_vars

\* C12's case: a denied LogCreate that is also invalid, on a store that
\* already holds a log entry.
C12_Witness ==
    /\ resp.op = "LogCreate" /\ ~resp.allowed /\ ~resp.typeOk /\ ~resp.nameOk
    /\ readObjectSize(store[resp.ns]) = 1

\* C13: the instant mutator applies each mutation in a read-write scope of
\* its own before QueueMutation returns: one ExecuteUpdate holding exactly
\* that mutation, a promise whose WaitUntilDone is that scope's outcome (nil
\* exactly when the mutation's writes and size were committed), the store of
\* the namespace unchanged when ApplyMutation failed, and no other namespace
\* touched.
C13_InstantMutatorSynchronous ==
    /\ [](resp.op = "QueueMutation" =>
            LET r == ApplyMutation(NewWrapper(resp.before),
                                   readObjectSize(resp.before), resp.mut)
            IN  /\ resp.ret.err = "nil"
                /\ resp.scopes = 1
                /\ resp.applied = <<resp.mut>>
                /\ resp.ret.WaitUntilDone = r.err
                /\ r.err = "nil" => store[resp.ns] = Saved(resp.before, r.kw.L, r.size)
                /\ r.err # "nil" => store[resp.ns] = resp.before)
    /\ [][resp'.op = "QueueMutation" =>
             /\ resp'.before = store[resp'.ns]
             /\ \A ns \in Namespaces \ {resp'.ns} : store'[ns] = store[ns]]_vars

\* C13's case: a mutation that the applier rejects reached a log that holds
\* an entry, and its promise reports the error.
C13_Witness ==
    /\ resp.op = "QueueMutation"
    /\ resp.ret.WaitUntilDone # "nil"
    /\ readObjectSize(resp.before) = 1

\* C14: namespace isolation in the batch mutator. While a batch is open its
\* overlay reads the store of the batch's namespace, every item applied in
\* the batch carries that namespace, every item committed under a namespace
\* carries it, and a commit changes the store of the batch's namespace only.
C14_NamespaceIsolation ==
    /\ [](pc \in {"apply", "select", "save"} =>
            /\ batchNs \in Namespaces
            /\ wrapper.Parent = store[batchNs]
            /\ \A i \in 1..Len(batch) : item[batch[i]].ns = batchNs)
    /\ [](\A ns \in Namespaces :
            \A i \in 1..Len(committed[ns]) : item[committed[ns][i]].ns = ns)
    /\ [][\A ns \in Namespaces :
             store'[ns] # store[ns] => (pc = "save" /\ ns = batchNs)]_vars

\* C14's case: batches of both namespaces were committed, the later one
\* leaving the log of the earlier one in place.
C14_Witness ==
    /\ pc = "idle"
    /\ \A ns \in Namespaces :
          /\ committed[ns] # <<>>
          /\ readObjectSize(store[ns]) = 1

\* A sequence holds no item twice.
NoRepeat(q) == \A i, j \in 1..Len(q) : q[i] = q[j] => i = j

\* C15: foreign-namespace hand-off. When handleBatch meets a dequeued item
\* of another namespace it ends the batch, which is committed without that
\* item; the item becomes the seed of the next batch; and no item is applied
\* twice, in the open batch or in the committed ones. Stated for the
\* configurations with a positive BatchSize.
C15_ForeignItemBecomesSeed ==
    /\ [][(Conf.BatchSize >= 1 /\ pc = "apply" /\ item[obj].ns # item[seed].ns) =>
             /\ pc' = "save"
             /\ seed' = obj
             /\ batch' = batch]_vars
    /\ [](Conf.BatchSize >= 1 =>
            \A ns \in Namespaces :
                NoRepeat(committed[ns] \o (IF batchNs = ns THEN batch ELSE <<>>)))

\* C16: a batch that finished without error and recorded at least one Set in
\* the overlay's replay list is committed: the consumer opens a read-write
\* scope and every recorded write is in the store afterwards, whether or not
\* the object size grew. Stated for the configurations with a positive
\* BatchSize.
C16_RecordedWritesCommitted ==
    [][(Conf.BatchSize >= 1 /\ pc = "save" /\ pc' # "fatal" /\ wrapper.L # <<>>) =>
          /\ updates' = updates + 1
          /\ \A i \in 1..Len(wrapper.L) :
                KVGet(store'[batchNs], wrapper.L[i].Bucket, wrapper.L[i].Key).err = "nil"]_vars

\* C17: LogCreate enqueues a mutation only for a valid request and reports
\* success only after it is done. Of the requests that pass the access check,
\* one with another log type or an empty name returns ErrInvalidRequest with
\* nothing enqueued and the store untouched; a valid one enqueues exactly one
\* LogCreate mutation and returns QueueMutation's error, else the error of
\* the promise's WaitUntilDone, else success. No request enqueues anything
\* unless it is valid.
C17_LogCreateEnqueuesValidOnly ==
    /\ []((resp.op = "LogCreate" /\ resp.allowed) =>
            LET valid == resp.typeOk /\ resp.nameOk
                done  == ApplyMutation(NewWrapper(resp.before),
                                       readObjectSize(resp.before), LogCreateMutation)
            IN  /\ ~valid => /\ resp.ret.err = "ErrInvalidRequest"
                             /\ resp.ret.queued = 0
                             /\ store[resp.ns] = resp.before
                /\ valid => resp.ret.queued = 1
                /\ (valid /\ ~resp.mutatorUp) => resp.ret.err = "StorageUnavailable"
                /\ (valid /\ resp.mutatorUp) => resp.ret.err = done.err
                /\ resp.ret.err = "nil" =>
                      /\ valid /\ resp.mutatorUp /\ done.err = "nil"
                      /\ KVGet(store[resp.ns], MetaBucket, CreatedKey).err = "nil")
    /\ []((resp.op = "LogCreate" /\ resp.ret.queued # 0) =>
            (resp.allowed /\ resp.typeOk /\ resp.nameOk /\ resp.ret.queued = 1))

\* C17's case: a valid LogCreate was enqueued and its promise reported an
\* error, which LogCreate returned.
C17_Witness ==
    /\ resp.op = "LogCreate" /\ resp.allowed /\ resp.typeOk /\ resp.nameOk
    /\ resp.mutatorUp
    /\ resp.ret.queued = 1
    /\ resp.ret.err = "ErrAlreadyExists"

\* C18: LogTreeHash answers from one snapshot. The scope reads the state
\* committed when it was opened and keeps it while commits to the same log
\* go on; the response is what that one state gives: on success the pair
\* (TreeSize, RootHash) is the root over exactly TreeSize leaves of the
\* snapshot, when the requested size is the snapshot's persisted size it is
\* the snapshot's cached head, and a size beyond the snapshot is refused even
\* if the log has grown to it since.
C18_OneSnapshot ==
    /\ [][(scope'.open /\ ~scope.open) => scope'.kr = store[scope'.ns]]_vars
    /\ [][(scope'.open /\ scope.open) =>
             (scope'.kr = scope.kr /\ scope'.ns = scope.ns)]_vars
    /\ [][(resp'.op = "LogTreeHash" /\ resp'.ret.scopes = 1) =>
             (scope.open /\ resp'.kr = scope.kr /\ resp'.ns = scope.ns)]_vars
    /\ []((resp.op = "LogTreeHash" /\ resp.ret.scopes = 1) =>
            LET size == readObjectSize(resp.kr)
                ret  == resp.ret
            IN  /\ ret.err = LogTreeHashScope(resp.kr, resp.TreeSize).err
                /\ ret.rv = LogTreeHashScope(resp.kr, resp.TreeSize).rv
                /\ ret.err = "nil" =>
                      /\ ret.rv[1] <= size
                      /\ HasLeaves(resp.kr, ret.rv[1])
                      /\ ret.rv[2] = lookupLogRootHashBySize(resp.kr, ret.rv[1])
                /\ resp.TreeSize = size =>
                      (ret.err = "nil" /\ ret.rv = lookupLogTreeHead(resp.kr))
                /\ resp.TreeSize > size => ret.err = "ErrInvalidTreeRange")

\* C18's case: a commit appended to the log while the scope was open, and
\* the response is for the size the log had when the scope was opened.
C18_Witness ==
    /\ resp.op = "LogTreeHash" /\ resp.ret.scopes = 1
    /\ readObjectSize(resp.kr) = 1
    /\ readObjectSize(store[resp.ns]) = 2
    /\ resp.TreeSize = 1
    /\ resp.ret.err = "nil"

\* The elements of a response in the order sent.
RECURSIVE Flatten(_)
Flatten(input) ==
    IF input = <<>> THEN <<>> ELSE Head(input) \o Flatten(Tail(input))

\* The hash of the last "index/hash" element sent for index i, empty if none.
RECURSIVE LastFor(_, _)
LastFor(els, i) ==
    IF els = <<>> THEN <<>>
    ELSE IF els[Len(els)].kind = "pair" /\ els[Len(els)].idx = i
    THEN els[Len(els)].hash
    ELSE LastFor(SubSeq(els, 1, Len(els) - 1), i)

\* What the claim asks of a response: an error if an element does not parse;
\* otherwise a path of PathLen slots, slot i holding the last hash sent for
\* index i, the elements with an index outside 0..PathLen-1 ignored.
ProofAsSent(ret, els) ==
    IF \E k \in 1..Len(els) : els[k].kind = "bad"
    THEN ret.err \in {"ErrSyntax", "InvalidByteError", "ErrLength"}
    ELSE /\ ret.err = "nil"
         /\ DOMAIN ret.prv = 0..(PathLen - 1)
         /\ \A i \in 0..(PathLen - 1) : ret.prv[i] = LastFor(els, i)

\* C19: for every set of X-Verified-Proof header values parseHeadersForProof
\* returns a parse error or an audit path of exactly 256 slots in which slot
\* i holds the last hash supplied for index i and the others are empty; an
\* element whose index is too large or negative is ignored and no store
\* outside the path happens.
C19_AuditPathFromHeaders ==
    proof.called =>
        /\ proof.ret.err # "panic: index out of range"
        /\ ProofAsSent(proof.ret, Flatten(proof.sent))

\* The same for the responses that hold no negative index, which the code
\* does satisfy.
NonNegativeIndexParses ==
    (proof.called /\ \A k \in 1..Len(Flatten(proof.sent)) :
                        Flatten(proof.sent)[k].idx >= 0)
        => ProofAsSent(proof.ret, Flatten(proof.sent))

====
